---- MODULE Spec2Model ----
(***************************************************************************)
(* Vibeshopper: the AI category pipeline of ProductList (full generation,  *)
(* intent classification, incremental update) together with the screens    *)
(* that drive it (AgentExperience, ResultsScreen).                         *)
(*                                                                         *)
(* JavaScript values are tagged records; a JavaScript string is the        *)
(* sequence of its characters, so that trimming, the code-fence regular    *)
(* expressions, JSON.parse and toLowerCase/includes are computed on the    *)
(* text itself.                                                            *)
(***************************************************************************)
EXTENDS Integers, Sequences, FiniteSets, TLC

(***************************************************************************)
(* JavaScript values                                                       *)
(***************************************************************************)
Undef == [t |-> "undef"]
Null == [t |-> "null"]
NaN == [t |-> "nan"]
JBool(b) == [t |-> "bool", v |-> b]
JNum(n) == [t |-> "num", v |-> n]
JStr(s) == [t |-> "str", v |-> s]
JArr(a) == [t |-> "arr", v |-> a]
\* An object is the sequence of its own properties, <<key, value>> pairs.
JObj(ps) == [t |-> "obj", v |-> ps]

IsArray(x) == x.t = "arr"
IsString(x) == x.t = "str"
IsObject(x) == x.t \in {"obj", "arr"}
IsNullish(x) == x.t \in {"undef", "null"}

\* ToBoolean: undefined, null, false, 0, NaN and "" are falsy.
Truthy(x) ==
  CASE x.t \in {"undef", "null", "nan"} -> FALSE
    [] x.t = "bool" -> x.v
    [] x.t = "num" -> x.v # 0
    [] x.t = "str" -> x.v # <<>>
    [] OTHER -> TRUE

HasOwn(o, k) == o.t = "obj" /\ \E i \in 1..Len(o.v) : o.v[i][1] = k

\* o.k : the property's value (the last one of a key JSON.parse saw twice),
\* undefined when o is not an object or has no such property.
Get(o, k) ==
  IF HasOwn(o, k)
  THEN LET i == CHOOSE j \in 1..Len(o.v) :
                  /\ o.v[j][1] = k
                  /\ \A m \in (j + 1)..Len(o.v) : o.v[m][1] # k
       IN o.v[i][2]
  ELSE Undef

\* a ?? b
Coalesce(a, b) == IF IsNullish(a) THEN b ELSE a

(***************************************************************************)
(* Characters and strings                                                  *)
(***************************************************************************)
Lowers == <<"a", "b", "c", "d", "e", "f", "g", "h", "i", "j", "k", "l", "m",
            "n", "o", "p", "q", "r", "s", "t", "u", "v", "w", "x", "y", "z">>
Uppers == <<"A", "B", "C", "D", "E", "F", "G", "H", "I", "J", "K", "L", "M",
            "N", "O", "P", "Q", "R", "S", "T", "U", "V", "W", "X", "Y", "Z">>
Digits == <<"0", "1", "2", "3", "4", "5", "6", "7", "8", "9">>

Range(s) == {s[i] : i \in 1..Len(s)}
IsLetter(c) == c \in Range(Lowers) \cup Range(Uppers)
IsDigit(c) == c \in Range(Digits)
IsSpace(c) == c \in {" ", "\n", "\t"}
DigitVal(c) == (CHOOSE i \in 1..10 : Digits[i] = c) - 1

LowerChar(c) ==
  IF c \in Range(Uppers) THEN Lowers[CHOOSE i \in 1..26 : Uppers[i] = c] ELSE c

\* String.prototype.toLowerCase
toLowerCase(s) == [i \in 1..Len(s) |-> LowerChar(s[i])]

\* s.slice(i - 1, j) in 1-based inclusive positions; empty when i > j.
Slice(s, i, j) == IF i > j THEN <<>> ELSE SubSeq(s, i, j)

StartsWithAt(s, i, p) ==
  /\ i + Len(p) - 1 <= Len(s)
  /\ \A k \in 1..Len(p) : s[i + k - 1] = p[k]

\* String.prototype.includes
includes(s, p) == \E i \in 1..(Len(s) + 1) : StartsWithAt(s, i, p)

RECURSIVE FirstNonSpace(_, _)
\* the first position at or after i that holds no whitespace (Len(s) + 1 if none)
FirstNonSpace(s, i) ==
  IF i <= Len(s) /\ IsSpace(s[i]) THEN FirstNonSpace(s, i + 1) ELSE i

RECURSIVE LastNonSpace(_, _)
\* the last position at or before i that holds no whitespace (0 if none)
LastNonSpace(s, i) ==
  IF i >= 1 /\ IsSpace(s[i]) THEN LastNonSpace(s, i - 1) ELSE i

\* String.prototype.trim
trim(s) == Slice(s, FirstNonSpace(s, 1), LastNonSpace(s, Len(s)))

RECURSIVE DigitsOf(_)
DigitsOf(n) == IF n < 10 THEN <<Digits[n + 1]>>
               ELSE DigitsOf(n \div 10) \o <<Digits[(n % 10) + 1]>>
\* Number.prototype.toString of an integer
NumToString(n) == IF n < 0 THEN <<"-">> \o DigitsOf(0 - n) ELSE DigitsOf(n)

RECURSIVE JoinWith(_, _)
\* Array.prototype.join over a sequence of strings
JoinWith(ss, sep) ==
  IF Len(ss) = 0 THEN <<>>
  ELSE IF Len(ss) = 1 THEN ss[1]
  ELSE ss[1] \o sep \o JoinWith(Tail(ss), sep)

RECURSIVE IndexFrom(_, _, _)
\* the first position at or after i that holds c (0 if none)
IndexFrom(s, c, i) ==
  IF i > Len(s) THEN 0 ELSE IF s[i] = c THEN i ELSE IndexFrom(s, c, i + 1)

RECURSIVE SplitOn(_, _)
\* String.prototype.split on a one-character separator
SplitOn(s, c) ==
  LET i == IndexFrom(s, c, 1)
  IN IF i = 0 THEN <<s>>
     ELSE <<Slice(s, 1, i - 1)>> \o SplitOn(Slice(s, i + 1, Len(s)), c)

RECURSIVE ToStr(_)
\* String(x)
ToStr(x) ==
  CASE x.t = "str" -> x.v
    [] x.t = "num" -> NumToString(x.v)
    [] x.t = "nan" -> <<"N", "a", "N">>
    [] x.t = "null" -> <<"n", "u", "l", "l">>
    [] x.t = "undef" -> <<"u", "n", "d", "e", "f", "i", "n", "e", "d">>
    [] x.t = "bool" -> IF x.v THEN <<"t", "r", "u", "e">>
                        ELSE <<"f", "a", "l", "s", "e">>
    [] x.t = "arr" ->
         JoinWith([i \in 1..Len(x.v) |->
                     IF IsNullish(x.v[i]) THEN <<>> ELSE ToStr(x.v[i])], <<",">>)
    [] OTHER -> <<"[", "o", "b", "j", "e", "c", "t", " ",
                  "O", "b", "j", "e", "c", "t", "]">>

RECURSIVE DigitsValue(_)
DigitsValue(s) ==
  IF Len(s) = 0 THEN 0
  ELSE 10 * DigitsValue(SubSeq(s, 1, Len(s) - 1)) + DigitVal(s[Len(s)])

\* Number(s) of a string: integers only; anything else is NaN.
StrToNumber(s) ==
  LET u == trim(s)
  IN IF u = <<>> THEN JNum(0)
     ELSE IF \A i \in 1..Len(u) : IsDigit(u[i]) THEN JNum(DigitsValue(u))
     ELSE IF /\ Len(u) > 1
             /\ u[1] = "-"
             /\ \A i \in 2..Len(u) : IsDigit(u[i])
          THEN JNum(0 - DigitsValue(Tail(u)))
     ELSE NaN

\* Number(x)
ToNumber(x) ==
  CASE x.t = "num" -> x
    [] x.t = "str" -> StrToNumber(x.v)
    [] x.t = "null" -> JNum(0)
    [] x.t = "bool" -> JNum(IF x.v THEN 1 ELSE 0)
    [] x.t = "arr" -> StrToNumber(ToStr(x))
    [] OTHER -> NaN

\* Number.isFinite
IsFinite(x) == x.t = "num"

(***************************************************************************)
(* JSON.parse: whitespace, null/true/false, integers, strings with the     *)
(* escapes \" \\ \/ \n \t, arrays and objects.  A result is                 *)
(* [ok |-> TRUE, val, next] or [ok |-> FALSE] (JSON.parse threw).          *)
(***************************************************************************)
Fail == [ok |-> FALSE]
Ok(v, n) == [ok |-> TRUE, val |-> v, next |-> n]

RECURSIVE SkipWS(_, _)
SkipWS(s, i) == IF i <= Len(s) /\ IsSpace(s[i]) THEN SkipWS(s, i + 1) ELSE i

RECURSIVE BackslashesBefore(_, _, _)
\* the length of the run of backslashes that ends just before position p and
\* starts at lo or later
BackslashesBefore(s, p, lo) ==
  IF p - 1 >= lo /\ s[p - 1] = "\\" THEN 1 + BackslashesBefore(s, p - 1, lo) ELSE 0

\* the character that c stands for, after the backslash of an escape or plain
DecodeChar(c, escaped) ==
  IF ~escaped THEN c
  ELSE IF c = "n" THEN "\n"
  ELSE IF c = "t" THEN "\t"
  ELSE c

\* The text of the string literal that continues at s[i], up to the first quote
\* that is not escaped.  Escaped[p]: the character at p follows the backslash of
\* an escape.
DecodeLiteral(s, i, Escaped) ==
  LET quotes == {p \in i..Len(s) : s[p] = "\"" /\ ~Escaped[p]}
      q == CHOOSE p \in quotes : \A r \in quotes : p <= r
      kept == SelectSeq([k \in 1..(q - i) |-> i + k - 1],
                        LAMBDA p : s[p] # "\\" \/ Escaped[p])
      bad == \E p \in i..(q - 1) :
               \/ Escaped[p] /\ s[p] \notin {"\"", "\\", "/", "n", "t"}
               \/ ~Escaped[p] /\ s[p] \in {"\n", "\t"}
  IN IF quotes = {} THEN Fail
     ELSE IF bad THEN Fail
     ELSE Ok(JStr([k \in 1..Len(kept) |-> DecodeChar(s[kept[k]], Escaped[kept[k]])]),
             q + 1)

\* s[i..] continues a string literal after its opening quote.
ScanString(s, i) ==
  DecodeLiteral(s, i, [p \in i..Len(s) |-> BackslashesBefore(s, p, i) % 2 = 1])

RECURSIVE ScanDigits(_, _)
\* the first position at or after j that holds no digit
ScanDigits(s, j) == IF j <= Len(s) /\ IsDigit(s[j]) THEN ScanDigits(s, j + 1) ELSE j

ParseNumber(s, i) ==
  LET neg == s[i] = "-"
      a == IF neg THEN i + 1 ELSE i
      b == ScanDigits(s, a)
  IN IF b = a THEN Fail
     ELSE IF s[a] = "0" /\ b > a + 1 THEN Fail
     ELSE LET n == DigitsValue(SubSeq(s, a, b - 1))
          IN Ok(JNum(IF neg THEN 0 - n ELSE n), b)

RECURSIVE ParseValue(_, _)
RECURSIVE ParseElems(_, _, _)
RECURSIVE ParseMembers(_, _, _)

\* s[i] starts an array element; acc holds the elements before it.
ParseElems(s, i, acc) ==
  LET r == ParseValue(s, i)
      j == SkipWS(s, r.next)
  IN IF ~r.ok THEN Fail
     ELSE IF j > Len(s) THEN Fail
     ELSE IF s[j] = "," THEN ParseElems(s, SkipWS(s, j + 1), Append(acc, r.val))
     ELSE IF s[j] = "]" THEN Ok(JArr(Append(acc, r.val)), j + 1)
     ELSE Fail

\* s[i] starts an object member; acc holds the members before it.
ParseMembers(s, i, acc) ==
  LET k == ScanString(s, i + 1)
      c == SkipWS(s, k.next)
      r == ParseValue(s, SkipWS(s, c + 1))
      j == SkipWS(s, r.next)
  IN IF i > Len(s) \/ s[i] # "\"" THEN Fail
     ELSE IF ~k.ok THEN Fail
     ELSE IF c > Len(s) \/ s[c] # ":" THEN Fail
     ELSE IF ~r.ok THEN Fail
     ELSE IF j > Len(s) THEN Fail
     ELSE IF s[j] = ","
          THEN ParseMembers(s, SkipWS(s, j + 1), Append(acc, <<k.val.v, r.val>>))
     ELSE IF s[j] = "}" THEN Ok(JObj(Append(acc, <<k.val.v, r.val>>)), j + 1)
     ELSE Fail

ParseValue(s, i) ==
  IF i > Len(s) THEN Fail
  ELSE IF s[i] = "\"" THEN ScanString(s, i + 1)
  ELSE IF s[i] = "-" \/ IsDigit(s[i]) THEN ParseNumber(s, i)
  ELSE IF StartsWithAt(s, i, <<"n", "u", "l", "l">>) THEN Ok(Null, i + 4)
  ELSE IF StartsWithAt(s, i, <<"t", "r", "u", "e">>) THEN Ok(JBool(TRUE), i + 4)
  ELSE IF StartsWithAt(s, i, <<"f", "a", "l", "s", "e">>) THEN Ok(JBool(FALSE), i + 5)
  ELSE IF s[i] = "["
       THEN LET j == SkipWS(s, i + 1)
            IN IF j <= Len(s) /\ s[j] = "]" THEN Ok(JArr(<<>>), j + 1)
               ELSE ParseElems(s, j, <<>>)
  ELSE IF s[i] = "{"
       THEN LET j == SkipWS(s, i + 1)
            IN IF j <= Len(s) /\ s[j] = "}" THEN Ok(JObj(<<>>), j + 1)
               ELSE ParseMembers(s, j, <<>>)
  ELSE Fail

\* the one element of a set of one element
The(S) == CHOOSE x \in S : TRUE

\* JSON.parse(text): one value, surrounded by optional whitespace, and nothing
\* else.  (The text and the parsed value are computed once and then named.)
JSONparse(text) ==
  The({ The({ IF r.ok /\ SkipWS(s, r.next) = Len(s) + 1 THEN Ok(r.val, r.next) ELSE Fail :
              r \in {ParseValue(s, SkipWS(s, 1))} }) :
        s \in {text} })

(***************************************************************************)
(* JSON.stringify (compact), used to write the hosted model's answers.     *)
(***************************************************************************)
\* the text that stands for character c inside a string literal
EscapeChar(c) ==
  CASE c = "\"" -> <<"\\", "\"">>
    [] c = "\\" -> <<"\\", "\\">>
    [] c = "\n" -> <<"\\", "n">>
    [] c = "\t" -> <<"\\", "t">>
    [] OTHER -> <<c>>

RECURSIVE EscapeStr(_)
\* the escaped text of s, half by half
EscapeStr(s) ==
  IF Len(s) = 0 THEN <<>>
  ELSE IF Len(s) = 1 THEN EscapeChar(s[1])
  ELSE LET h == Len(s) \div 2
       IN EscapeStr(SubSeq(s, 1, h)) \o EscapeStr(SubSeq(s, h + 1, Len(s)))

Quote(s) == <<"\"">> \o EscapeStr(s) \o <<"\"">>

RECURSIVE JSONstringify(_)
JSONstringify(x) ==
  CASE x.t = "str" -> Quote(x.v)
    [] x.t = "num" -> NumToString(x.v)
    [] x.t = "bool" -> ToStr(x)
    [] x.t = "arr" ->
         <<"[">> \o JoinWith([i \in 1..Len(x.v) |-> JSONstringify(x.v[i])], <<",">>)
                 \o <<"]">>
    [] x.t = "obj" ->
         <<"{">> \o JoinWith([i \in 1..Len(x.v) |->
                               Quote(x.v[i][1]) \o <<":">> \o JSONstringify(x.v[i][2])],
                             <<",">>)
                 \o <<"}">>
    [] OTHER -> <<"n", "u", "l", "l">>

(***************************************************************************)
(* Property names and string literals of ProductList.tsx                   *)
(***************************************************************************)
K_id == <<"i", "d">>
K_name == <<"n", "a", "m", "e">>
K_title == <<"t", "i", "t", "l", "e">>
K_description == <<"d", "e", "s", "c", "r", "i", "p", "t", "i", "o", "n">>
K_searchTerms == <<"s", "e", "a", "r", "c", "h", "T", "e", "r", "m", "s">>
K_priority == <<"p", "r", "i", "o", "r", "i", "t", "y">>
K_type == <<"t", "y", "p", "e">>
K_reason == <<"r", "e", "a", "s", "o", "n">>
K_isUpdating == <<"i", "s", "U", "p", "d", "a", "t", "i", "n", "g">>
K_output == <<"o", "u", "t", "p", "u", "t">>
K_data == <<"d", "a", "t", "a">>
K_text == <<"t", "e", "x", "t">>
K_content == <<"c", "o", "n", "t", "e", "n", "t">>
K_result == <<"r", "e", "s", "u", "l", "t">>
K_intent == <<"i", "n", "t", "e", "n", "t">>
K_targetCategories ==
  <<"t", "a", "r", "g", "e", "t", "C", "a", "t", "e", "g", "o", "r", "i", "e", "s">>
S_Untitled == <<"U", "n", "t", "i", "t", "l", "e", "d">>
S_other == <<"o", "t", "h", "e", "r">>
S_specific == <<"s", "p", "e", "c", "i", "f", "i", "c">>
S_full == <<"f", "u", "l", "l">>
S_planning_app == <<"p", "l", "a", "n", "n", "i", "n", "g", "_", "a", "p", "p">>
S_tools == <<"t", "o", "o", "l", "s">>
S_consumables == <<"c", "o", "n", "s", "u", "m", "a", "b", "l", "e", "s">>
S_containers == <<"c", "o", "n", "t", "a", "i", "n", "e", "r", "s">>
S_seeds_plants == <<"s", "e", "e", "d", "s", "_", "p", "l", "a", "n", "t", "s">>
S_accessories == <<"a", "c", "c", "e", "s", "s", "o", "r", "i", "e", "s">>
S_aiGenerated == <<"a", "i", "-", "g", "e", "n", "e", "r", "a", "t", "e", "d", "-">>
S_fallbackGeneral ==
  <<"f", "a", "l", "l", "b", "a", "c", "k", "-", "g", "e", "n", "e", "r", "a", "l">>
S_fallbackGeneral2 ==
  <<"f", "a", "l", "l", "b", "a", "c", "k", "-", "g", "e", "n", "e", "r", "a", "l",
    "-", "2">>
S_GeneralResults ==
  <<"G", "e", "n", "e", "r", "a", "l", " ", "R", "e", "s", "u", "l", "t", "s">>
S_BroadSearchResults ==
  <<"B", "r", "o", "a", "d", " ", "s", "e", "a", "r", "c", "h", " ", "r", "e", "s",
    "u", "l", "t", "s">>
S_SearchResults ==
  <<"S", "e", "a", "r", "c", "h", " ", "R", "e", "s", "u", "l", "t", "s">>
S_GeneralSearchResults ==
  <<"G", "e", "n", "e", "r", "a", "l", " ", "s", "e", "a", "r", "c", "h", " ", "r",
    "e", "s", "u", "l", "t", "s">>
\* The backtick character (the module's lexer takes none inside a string).
Backtick == "backtick"
S_fence == <<Backtick, Backtick, Backtick>>

(***************************************************************************)
(* generateCategoriesWithAI: from the response envelope to the batch       *)
(***************************************************************************)
RECURSIVE ScanLetters(_, _)
\* the first position at or after j that holds no letter
ScanLetters(s, j) == IF j <= Len(s) /\ IsLetter(s[j]) THEN ScanLetters(s, j + 1) ELSE j

\* text.replace(/^```[a-z]*\n?/i, '')
StripFenceOpen(s) ==
  IF StartsWithAt(s, 1, S_fence)
  THEN LET a == ScanLetters(s, 4)
           b == IF a <= Len(s) /\ s[a] = "\n" THEN a + 1 ELSE a
       IN Slice(s, b, Len(s))
  ELSE s

\* a replacement that removes the last three characters whatever they are
DropsLastThree(s) == Slice(s, 1, Len(s) - 3)

\* text.replace(/```$/i, '')
StripFenceClose(s) ==
  IF Len(s) >= 3 /\ StartsWithAt(s, Len(s) - 2, S_fence)
  THEN Slice(s, 1, Len(s) - 3)
  ELSE s

\* outputText.trim() with the two replacements and the second trim
Sanitize(outputText) == trim(StripFenceClose(StripFenceOpen(trim(outputText))))

\* text.match(/\[[\s\S]*\]/): from the first "[" to the last "]" after it
MatchArray(s) ==
  LET opens == {i \in 1..Len(s) : s[i] = "["}
      closes == {i \in 1..Len(s) : s[i] = "]"}
      a == CHOOSE i \in opens : \A k \in opens : i <= k
      b == CHOOSE i \in closes : \A k \in closes : k <= i
  IN IF opens = {} \/ closes = {} THEN Fail
     ELSE IF b < a THEN Fail
     ELSE Ok(SubSeq(s, a, b), b + 1)

\* JSON.parse(text), and on failure JSON.parse of the first array in the text
ParseOrMatch(text) ==
  LET direct == JSONparse(text)
      m == MatchArray(text)
  IN IF direct.ok THEN direct
     ELSE IF ~m.ok THEN Fail
     ELSE JSONparse(m.val)

\* a parser without the second JSON.parse of a string
KeepsString(parsed) == parsed

\* if (typeof parsed === 'string') { try { parsed = JSON.parse(parsed) } catch {} }
ReparseString(parsed) ==
  LET again == JSONparse(parsed.v)
  IN IF IsString(parsed) /\ again.ok THEN again.val ELSE parsed

\* parsed.output ?? parsed.data?.output ?? parsed.result ?? parsed.content ?? parsed.text
FromObj(parsed) ==
  LET d == Get(parsed, K_data)
      dOut == IF IsNullish(d) THEN Undef ELSE Get(d, K_output)
  IN Coalesce(Get(parsed, K_output),
       Coalesce(dOut,
         Coalesce(Get(parsed, K_result),
           Coalesce(Get(parsed, K_content), Get(parsed, K_text)))))

\* the unwrapping of a parsed plain object
UnwrapObject(parsed) ==
  IF parsed.t = "obj"
  THEN LET f == FromObj(parsed)
           inner == JSONparse(f.v)
       IN IF IsArray(f) THEN f
          ELSE IF IsString(f) /\ inner.ok THEN inner.val
          ELSE parsed
  ELSE parsed

\* outputText to the parsed array; Fail where the code throws
ParseOutputText(outputText) ==
  IF outputText = <<>> THEN Fail
  ELSE The({ IF ~first.ok THEN Fail
             ELSE The({ The({ IF ~IsArray(parsed) THEN Fail ELSE Ok(parsed.v, 0) :
                              parsed \in {UnwrapObject(reparsed)} }) :
                        reparsed \in {ReparseString(first.val)} }) :
             first \in {ParseOrMatch(Sanitize(outputText))} })

\* The envelope chain: [cats |-> array or Null, text |-> string or Null]
ExtractEnvelope(result) ==
  LET out == Get(result, K_output)
      d == Get(result, K_data)
      dOut == Get(d, K_output)
      none == [cats |-> Null, text |-> Null]
  IN IF IsArray(result) THEN [cats |-> result, text |-> Null]
     ELSE IF IsString(result) THEN [cats |-> Null, text |-> result]
     ELSE IF result.t = "obj" THEN
            IF IsArray(out) THEN [cats |-> out, text |-> Null]
            ELSE IF IsString(out) THEN [cats |-> Null, text |-> out]
            ELSE IF Truthy(d) THEN
                   IF IsArray(dOut) THEN [cats |-> dOut, text |-> Null]
                   ELSE IF IsString(dOut) THEN [cats |-> Null, text |-> dOut]
                   ELSE none
            ELSE IF IsString(Get(result, K_text))
                 THEN [cats |-> Null, text |-> Get(result, K_text)]
            ELSE IF IsString(Get(result, K_content))
                 THEN [cats |-> Null, text |-> Get(result, K_content)]
            ELSE none
     ELSE none

\* The raw category array of a truthy result; Fail where the try block throws.
ExtractCategories(result) ==
  LET e == ExtractEnvelope(result)
  IN IF IsArray(e.cats) THEN Ok(e.cats.v, 0)
     ELSE IF ~IsString(e.text) THEN Fail
     ELSE ParseOutputText(e.text.v)

AllowedTypes ==
  {S_planning_app, S_tools, S_consumables, S_containers, S_seeds_plants,
   S_accessories, S_other}

\* the type coercion of the normalizer
NormalizeType(c) ==
  LET t == ToStr(Coalesce(Get(c, K_type), JStr(S_other)))
  IN IF t \in AllowedTypes THEN JStr(t) ELSE JStr(S_other)

\* One element of categories.map((c, index) => ...), index from 0, at time now.
NormalizeCategory(c, index, now) ==
  [id |-> Coalesce(Get(c, K_id),
                   JStr(S_aiGenerated \o NumToString(now) \o <<"-">> \o NumToString(index))),
   name |-> JStr(ToStr(Coalesce(Get(c, K_name), Coalesce(Get(c, K_title), JStr(S_Untitled))))),
   description |-> JStr(ToStr(Coalesce(Get(c, K_description), JStr(<<>>)))),
   searchTerms |-> IF IsArray(Get(c, K_searchTerms))
                   THEN JArr([i \in 1..Len(Get(c, K_searchTerms).v) |->
                                JStr(ToStr(Get(c, K_searchTerms).v[i]))])
                   ELSE JArr(<<>>),
   priority |-> IF IsFinite(ToNumber(Get(c, K_priority)))
                THEN ToNumber(Get(c, K_priority))
                ELSE JNum(3),
   type |-> NormalizeType(c),
   reason |-> IF Truthy(Get(c, K_reason)) THEN JStr(ToStr(Get(c, K_reason))) ELSE Undef,
   isUpdating |-> Undef]

\* a normalizer that passes over the elements that are no objects
NormalizesObjectsOnly(raw, now) ==
  LET objs == SelectSeq(raw, LAMBDA c : c.t = "obj")
  IN [i \in 1..Len(objs) |-> NormalizeCategory(objs[i], i - 1, now)]

NormalizeAll(raw, now) == [i \in 1..Len(raw) |-> NormalizeCategory(raw[i], i - 1, now)]

RECURSIVE InsertsBeforeEqual(_, _)
\* an insertion that places c before the elements of its own priority
InsertsBeforeEqual(sorted, c) ==
  IF Len(sorted) = 0 THEN <<c>>
  ELSE IF sorted[1].priority.v > c.priority.v
       THEN <<sorted[1]>> \o InsertsBeforeEqual(Tail(sorted), c)
  ELSE <<c>> \o sorted

RECURSIVE InsertByPriority(_, _)
\* c placed after every element it does not precede under (a, b) => b.priority - a.priority
InsertByPriority(sorted, c) ==
  IF Len(sorted) = 0 THEN <<c>>
  ELSE IF sorted[1].priority.v >= c.priority.v
       THEN <<sorted[1]>> \o InsertByPriority(Tail(sorted), c)
  ELSE <<c>> \o sorted

RECURSIVE SortByPriority(_)
\* categories.sort((a, b) => b.priority - a.priority): stable, highest first
SortByPriority(cats) ==
  IF Len(cats) = 0 THEN <<>>
  ELSE InsertByPriority(SortByPriority(SubSeq(cats, 1, Len(cats) - 1)), cats[Len(cats)])

\* [prompt.split(' ').slice(0, 3).join(' ')]
FirstThreeWords(prompt) ==
  LET w == SplitOn(prompt, " ")
  IN JoinWith(SubSeq(w, 1, IF Len(w) < 3 THEN Len(w) ELSE 3), <<" ">>)

\* the fallback of the inner catch (the response could not be parsed)
ParseFallback(prompt) ==
  <<[id |-> JStr(S_fallbackGeneral), name |-> JStr(S_GeneralResults),
     description |-> JStr(S_BroadSearchResults),
     searchTerms |-> JArr(<<JStr(FirstThreeWords(prompt))>>),
     priority |-> JNum(3), type |-> JStr(S_other), reason |-> Undef,
     isUpdating |-> Undef]>>

\* an outer catch that logs the error and sets nothing
NoApiFallback(prompt) == <<>>

\* the fallback of the outer catch (the call rejected)
ApiFallback(prompt) ==
  <<[id |-> JStr(S_fallbackGeneral2), name |-> JStr(S_SearchResults),
     description |-> JStr(S_GeneralSearchResults),
     searchTerms |-> JArr(<<JStr(FirstThreeWords(prompt))>>),
     priority |-> JNum(3), type |-> JStr(S_other), reason |-> Undef,
     isUpdating |-> Undef]>>

(***************************************************************************)
(* The first revision of generateCategoriesWithAI (the same extraction and *)
(* parsing; its categories carry no id, and a diversity step follows the   *)
(* sort)                                                                   *)
(***************************************************************************)
\* one element of the first revision's categories.map
NormalizeCategoryFirst(c) == [NormalizeCategory(c, 0, 0) EXCEPT !.id = Undef]

NormalizeAllFirst(raw) == [i \in 1..Len(raw) |-> NormalizeCategoryFirst(raw[i])]

requiredTypes == <<S_planning_app, S_tools, S_consumables, S_containers>>

\* the category the switch returns for a missing type t
Synthesized(t) ==
  CASE t = S_planning_app ->
      [id |-> Undef,
       name |-> JStr(<<"P", "l", "a", "n", "n", "i", "n", "g", " ", "A", "p", "p">>),
       description |-> JStr(<<"P", "l", "a", "n", " ", "t", "a", "s", "k", "s", " ", "a",
                        "n", "d", " ", "t", "r", "a", "c", "k", " ", "p", "r", "o",
                        "g", "r", "e", "s", "s">>),
       searchTerms |-> JArr(<<JStr(<<"p", "l", "a", "n", "n", "e", "r", " ", "a", "p", "p">>),
                          JStr(<<"t", "a", "s", "k", " ", "t", "r", "a", "c", "k", "e",
                              "r", " ", "a", "p", "p">>),
                          JStr(<<"p", "r", "o", "j", "e", "c", "t", " ", "p", "l", "a",
                              "n", "n", "e", "r">>)>>),
       priority |-> JNum(3),
       type |-> JStr(S_planning_app),
       reason |-> JStr(<<"E", "n", "s", "u", "r", "e", " ", "o", "r", "g", "a", "n",
                        "i", "z", "e", "d", " ", "e", "x", "e", "c", "u", "t", "i",
                        "o", "n">>),
       isUpdating |-> Undef]
    [] t = S_tools ->
      [id |-> Undef,
       name |-> JStr(<<"T", "o", "o", "l", " ", "S", "e", "t">>),
       description |-> JStr(<<"E", "s", "s", "e", "n", "t", "i", "a", "l", " ", "k", "i",
                        "t", " ", "f", "o", "r", " ", "t", "h", "e", " ", "j", "o", "b">>),
       searchTerms |-> JArr(<<JStr(<<"t", "o", "o", "l", " ", "s", "e", "t">>),
                          JStr(<<"h", "a", "n", "d", " ", "t", "o", "o", "l", "s">>),
                          JStr(<<"s", "t", "a", "r", "t", "e", "r", " ", "t", "o", "o",
                              "l", " ", "k", "i", "t">>)>>),
       priority |-> JNum(3),
       type |-> JStr(S_tools),
       reason |-> JStr(<<"C", "o", "r", "e", " ", "p", "h", "y", "s", "i", "c", "a",
                        "l", " ", "t", "o", "o", "l", "s">>),
       isUpdating |-> Undef]
    [] t = S_consumables ->
      [id |-> Undef,
       name |-> JStr(<<"C", "o", "n", "s", "u", "m", "a", "b", "l", "e", "s">>),
       description |-> JStr(<<"M", "a", "t", "e", "r", "i", "a", "l", "s", " ", "u", "s",
                        "e", "d", " ", "u", "p", " ", "d", "u", "r", "i", "n", "g",
                        " ", "w", "o", "r", "k">>),
       searchTerms |-> JArr(<<JStr(<<"c", "o", "n", "s", "u", "m", "a", "b", "l", "e", "s">>),
                          JStr(<<"s", "u", "p", "p", "l", "i", "e", "s">>),
                          JStr(<<"m", "a", "t", "e", "r", "i", "a", "l", "s">>)>>),
       priority |-> JNum(2),
       type |-> JStr(S_consumables),
       reason |-> JStr(<<"C", "o", "m", "m", "o", "n", " ", "r", "e", "c", "u", "r",
                        "r", "i", "n", "g", " ", "n", "e", "e", "d", "s">>),
       isUpdating |-> Undef]
    [] t = S_containers ->
      [id |-> Undef,
       name |-> JStr(<<"C", "o", "n", "t", "a", "i", "n", "e", "r", "s">>),
       description |-> JStr(<<"S", "t", "o", "r", "a", "g", "e", " ", "o", "r", " ", "h",
                        "o", "l", "d", "e", "r", "s", " ", "n", "e", "e", "d", "e", "d">>),
       searchTerms |-> JArr(<<JStr(<<"c", "o", "n", "t", "a", "i", "n", "e", "r", "s">>),
                          JStr(<<"b", "i", "n", "s">>),
                          JStr(<<"p", "o", "t", "s">>)>>),
       priority |-> JNum(2),
       type |-> JStr(S_containers),
       reason |-> JStr(<<"O", "r", "g", "a", "n", "i", "z", "a", "t", "i", "o", "n",
                        "/", "u", "s", "a", "g", "e">>),
       isUpdating |-> Undef]
    [] OTHER ->
      [id |-> Undef,
       name |-> JStr(<<"A", "c", "c", "e", "s", "s", "o", "r", "i", "e", "s">>),
       description |-> JStr(<<"H", "e", "l", "p", "f", "u", "l", " ", "a", "d", "d", "-",
                        "o", "n", "s">>),
       searchTerms |-> JArr(<<JStr(<<"a", "c", "c", "e", "s", "s", "o", "r", "i", "e", "s">>),
                          JStr(<<"a", "d", "d", "-", "o", "n", "s">>)>>),
       priority |-> JNum(1),
       type |-> JStr(S_accessories),
       reason |-> JStr(<<"S", "u", "p", "p", "o", "r", "t", " ", "i", "t", "e", "m", "s">>),
       isUpdating |-> Undef]

\* requiredTypes.filter(t => !present.has(t ?? 'other'))
MissingTypes(sorted) ==
  SelectSeq(requiredTypes,
            LAMBDA t : \A j \in 1..Len(sorted) :
                         Coalesce(sorted[j].type, JStr(S_other)) # JStr(t))

\* a diversity step that sorts once more after appending
SortsAfterAppending(sorted) ==
  SortByPriority(sorted \o [j \in 1..Len(MissingTypes(sorted)) |->
                              Synthesized(MissingTypes(sorted)[j])])

\* sortedCategories after "Enforce diversity coverage"
EnforceDiversity(sorted) ==
  sorted \o [j \in 1..Len(MissingTypes(sorted)) |-> Synthesized(MissingTypes(sorted)[j])]

\* the four fallback categories of the first revision's two catch blocks
FallbackCategoriesFirst ==
  <<[id |-> Undef,
     name |-> JStr(<<"P", "r", "o", "j", "e", "c", "t", " ", "T", "e", "m", "p", "l",
                      "a", "t", "e", "s">>),
     description |-> JStr(<<"G", "e", "n", "e", "r", "a", "l", " ", "p", "r", "o", "j", "e",
                      "c", "t", " ", "s", "t", "a", "r", "t", "e", "r", " ", "k", "i",
                      "t", "s", " ", "a", "n", "d", " ", "t", "e", "m", "p", "l", "a",
                      "t", "e", "s">>),
     searchTerms |-> JArr(<<JStr(<<"t", "e", "m", "p", "l", "a", "t", "e">>),
                        JStr(<<"s", "t", "a", "r", "t", "e", "r">>),
                        JStr(<<"k", "i", "t">>)>>),
     priority |-> JNum(5),
     type |-> Undef,
     reason |-> Undef,
     isUpdating |-> Undef],
    [id |-> Undef,
     name |-> JStr(<<"T", "o", "o", "l", "s", " ", "&", " ", "E", "q", "u", "i", "p",
                      "m", "e", "n", "t">>),
     description |-> JStr(<<"H", "a", "r", "d", "w", "a", "r", "e", ",", " ", "g", "e", "a",
                      "r", " ", "a", "n", "d", " ", "t", "o", "o", "l", "s", " ", "t",
                      "o", " ", "g", "e", "t", " ", "t", "h", "e", " ", "j", "o", "b",
                      " ", "d", "o", "n", "e">>),
     searchTerms |-> JArr(<<JStr(<<"t", "o", "o", "l">>),
                        JStr(<<"e", "q", "u", "i", "p", "m", "e", "n", "t">>),
                        JStr(<<"g", "e", "a", "r">>)>>),
     priority |-> JNum(4),
     type |-> Undef,
     reason |-> Undef,
     isUpdating |-> Undef],
    [id |-> Undef,
     name |-> JStr(<<"G", "u", "i", "d", "e", "s", " ", "&", " ", "C", "o", "u", "r",
                      "s", "e", "s">>),
     description |-> JStr(<<"I", "n", "s", "t", "r", "u", "c", "t", "i", "o", "n", "s", ",",
                      " ", "t", "u", "t", "o", "r", "i", "a", "l", "s", " ", "a", "n",
                      "d", " ", "l", "e", "a", "r", "n", "i", "n", "g", " ", "r", "e",
                      "s", "o", "u", "r", "c", "e", "s">>),
     searchTerms |-> JArr(<<JStr(<<"g", "u", "i", "d", "e">>),
                        JStr(<<"c", "o", "u", "r", "s", "e">>),
                        JStr(<<"t", "u", "t", "o", "r", "i", "a", "l">>)>>),
     priority |-> JNum(3),
     type |-> Undef,
     reason |-> Undef,
     isUpdating |-> Undef],
    [id |-> Undef,
     name |-> JStr(<<"A", "p", "p", "s", " ", "&", " ", "S", "o", "f", "t", "w", "a",
                      "r", "e">>),
     description |-> JStr(<<"A", "p", "p", "s", ",", " ", "S", "a", "a", "S", " ", "a", "n",
                      "d", " ", "s", "o", "f", "t", "w", "a", "r", "e", " ", "t", "o",
                      " ", "h", "e", "l", "p", " ", "y", "o", "u", "r", " ", "p", "r",
                      "o", "j", "e", "c", "t">>),
     searchTerms |-> JArr(<<JStr(<<"a", "p", "p">>),
                        JStr(<<"s", "o", "f", "t", "w", "a", "r", "e">>),
                        JStr(<<"t", "r", "a", "c", "k", "e", "r">>)>>),
     priority |-> JNum(2),
     type |-> Undef,
     reason |-> Undef,
     isUpdating |-> Undef]>>

\* The batch the first revision leaves on an answer of outcome o
GeneratedBatchFirst(o, prev) ==
  CASE o.path = "falsy" -> prev
    [] o.path = "parsed" -> EnforceDiversity(SortByPriority(NormalizeAllFirst(o.raw)))
    [] OTHER -> FallbackCategoriesFirst

(***************************************************************************)
(* handleCategoryUpdate: the classifier answer, target resolution, the     *)
(* update answer and the merge                                             *)
(***************************************************************************)
\* a === b on primitives (two parsed objects are never the same object)
StrictEq(a, b) == a.t \notin {"arr", "obj", "nan"} /\ a = b

\* x || y
OrElse(x, y) == IF Truthy(x) THEN x ELSE y

\* result?.data?.output || result?.output || result
EnvelopeOutput(r) ==
  LET d == Get(r, K_data)
      dOut == IF IsNullish(d) THEN Undef ELSE Get(d, K_output)
  IN OrElse(dOut, OrElse(Get(r, K_output), r))

\* JSON.parse(s) inside try/catch, keeping dflt when it throws
ParseOr(s, dflt) == LET r == JSONparse(s) IN IF r.ok THEN r.val ELSE dflt

\* `analysis` after the parsing of a truthy analysisResult
ParseAnalysis(analysisResult) ==
  IF IsString(analysisResult) THEN ParseOr(analysisResult.v, JObj(<<>>))
  ELSE IF IsObject(analysisResult)
       THEN LET fromObj == EnvelopeOutput(analysisResult)
            IN IF IsString(fromObj) THEN ParseOr(fromObj.v, JObj(<<>>)) ELSE fromObj
  ELSE JObj(<<>>)

\* analysis.intent === 'specific' && Array.isArray(analysis.targetCategories)
\*   && analysis.targetCategories.length > 0   (analysis is not null here)
IsSpecific(analysis) ==
  /\ StrictEq(Get(analysis, K_intent), JStr(S_specific))
  /\ IsArray(Get(analysis, K_targetCategories))
  /\ Len(Get(analysis, K_targetCategories).v) > 0

\* a comparison that only looks for the target name inside the category name
MatchesFragmentInName(catName, targetName) ==
  includes(toLowerCase(catName), toLowerCase(targetName))

\* match1 || match2 of the comparison of one category with one target name
NameMatches(catName, targetName) ==
  LET catNameLower == toLowerCase(catName)
      targetNameLower == toLowerCase(targetName)
  IN includes(catNameLower, targetNameLower) \/ includes(targetNameLower, catNameLower)

RECURSIVE SomeTarget(_, _, _)
\* targetCategories.some(...) for one category from target j on:
\* "yes", "no", or "throw" (toLowerCase of a value that is no string)
SomeTarget(cat, targets, j) ==
  IF j > Len(targets) THEN "no"
  ELSE IF ~IsString(cat.name) \/ ~IsString(targets[j]) THEN "throw"
  ELSE IF NameMatches(cat.name.v, targets[j].v) THEN "yes"
  ELSE SomeTarget(cat, targets, j + 1)

ResolveThrows(cats, targets) ==
  \E i \in 1..Len(cats) : SomeTarget(cats[i], targets, 1) = "throw"

\* targetCategoryIds: the ids, in order, of the categories some target matches
ResolveTargets(cats, targets) ==
  LET hit == SelectSeq(cats, LAMBDA c : SomeTarget(c, targets, 1) = "yes")
  IN [i \in 1..Len(hit) |-> hit[i].id]

\* targetCategoryIds.includes(id)
IdIncluded(ids, id) == \E i \in 1..Len(ids) : StrictEq(ids[i], id)

\* prev.map(cat => ({...cat, isUpdating: targetCategoryIds.includes(cat.id)}))
MarkUpdating(prev, ids) ==
  [i \in 1..Len(prev) |->
     [prev[i] EXCEPT !.isUpdating = JBool(IdIncluded(ids, prev[i].id))]]

\* `updatedCategories` after the parsing of a truthy updateResult
ParseUpdate(updateResult) ==
  IF IsArray(updateResult) THEN updateResult
  ELSE IF IsString(updateResult) THEN ParseOr(updateResult.v, JArr(<<>>))
  ELSE IF updateResult.t = "obj"
       THEN LET fromObj == EnvelopeOutput(updateResult)
            IN IF IsArray(fromObj) THEN fromObj
               ELSE IF IsString(fromObj) THEN ParseOr(fromObj.v, JArr(<<>>))
               ELSE JArr(<<>>)
  ELSE JArr(<<>>)

RECURSIVE FindById(_, _, _)
\* updatedCategories.find(u => u.id === id) from element j on
FindById(us, id, j) ==
  IF j > Len(us) THEN [r |-> "none"]
  ELSE IF IsNullish(us[j]) THEN [r |-> "throw"]
  ELSE IF StrictEq(Get(us[j], K_id), id) THEN [r |-> "found", val |-> us[j]]
  ELSE FindById(us, id, j + 1)

KeyOf ==
  [id |-> K_id, name |-> K_name, description |-> K_description,
   searchTerms |-> K_searchTerms, priority |-> K_priority, type |-> K_type,
   reason |-> K_reason, isUpdating |-> K_isUpdating]

CatFields == DOMAIN KeyOf

\* a merge that takes every field from the record, present in it or not
ReplacesWithRecord(cat, updated) ==
  [f \in CatFields |->
     IF f = "isUpdating" THEN JBool(FALSE) ELSE Get(updated, KeyOf[f])]

\* { ...cat, ...updated, isUpdating: false }
SpreadMerge(cat, updated) ==
  [f \in CatFields |->
     IF f = "isUpdating" THEN JBool(FALSE)
     ELSE IF HasOwn(updated, KeyOf[f]) THEN Get(updated, KeyOf[f])
     ELSE cat[f]]

\* one category through the merge callback
MergeCategory(cat, us) ==
  LET found == FindById(us, cat.id, 1)
  IN IF found.r = "found" THEN SpreadMerge(cat, found.val)
     ELSE [cat EXCEPT !.isUpdating = JBool(FALSE)]

\* the updater throws (u.id of a null element) for some category of prev
MergeThrows(prev, us) == \E i \in 1..Len(prev) : FindById(us, prev[i].id, 1).r = "throw"

\* a merge that keeps only the categories the answer has a record for
KeepsOnlyUpdated(prev, us) ==
  LET hit == SelectSeq(prev, LAMBDA c : FindById(us, c.id, 1).r = "found")
  IN [i \in 1..Len(hit) |-> MergeCategory(hit[i], us)]

\* prev.map(cat => ...) of the merge
MergeUpdated(prev, us) == [i \in 1..Len(prev) |-> MergeCategory(prev[i], us)]

(***************************************************************************)
(* The inputs: what the user sends and what the hosted model answers.      *)
(* A settlement is a rejection or a resolution with a JavaScript value.    *)
(***************************************************************************)
S_GardenTools == <<"G", "a", "r", "d", "e", "n", " ", "T", "o", "o", "l", "s">>
S_Pots == <<"P", "o", "t", "s">>
S_BlueTools == <<"B", "l", "u", "e", " ", "T", "o", "o", "l", "s">>
S_Vases == <<"V", "a", "s", "e", "s">>
S_trowel == <<"t", "r", "o", "w", "e", "l">>
S_blue == <<"b", "l", "u", "e">>
S_vases == <<"v", "a", "s", "e", "s">>
S_zzz == <<"z", "z", "z">>
S_myPots == <<"m", "y", " ", "P", "o", "t", "s">>
S_json == <<"j", "s", "o", "n">>
S_sorry == <<"S", "o", "r", "r", "y", ",", " ", "n", "o", " ", "i", "d", "e", "a">>
S_seeList == <<"s", "e", "e", " ", "[", "l", "i", "s", "t", "]">>
S_requestId == <<"r", "e", "q", "u", "e", "s", "t", "I", "d">>
S_foo == <<"f", "o", "o">>
P_pots ==
  <<"b", "l", "u", "e", " ", "p", "o", "t", "s", " ", "f", "o", "r", " ", "m", "e">>
P_tools == <<" ", "t", "o", "o", "l", "s">>

\* the prompts a send carries (the empty one: an image sent without text)
PromptInputs == {<<>>, P_pots, P_tools}
\* the prompts IntroScreen sends
IntroPrompts == {<<>>, P_pots}

\* Date.now() at the normalization of a batch
Clock == {1}

\* at most this many handleCategoryUpdate invocations are in flight at once
MaxInFlight == 2

Rejected == [kind |-> "reject"]
Resolved(v) == [kind |-> "resolve", v |-> v]

Fenced(text) == S_fence \o S_json \o <<"\n">> \o text \o <<"\n">> \o S_fence

RawTools ==
  JObj(<< <<K_id, JStr(<<"a">>)>>, <<K_name, JStr(S_GardenTools)>>,
          <<K_searchTerms, JArr(<<JStr(S_trowel)>>)>>, <<K_priority, JNum(4)>>,
          <<K_type, JStr(S_tools)>> >>)
RawPots ==
  JObj(<< <<K_id, JStr(<<"b">>)>>, <<K_name, JStr(S_Pots)>>,
          <<K_priority, JNum(5)>>, <<K_type, JStr(S_vases)>> >>)

\* answers to the full-generation prompt
GenResponses ==
  << Rejected,
     Resolved(Null),
     Resolved(JObj(<< <<K_data,
                        JObj(<< <<K_output,
                                  JStr(Fenced(JSONstringify(JArr(<<RawTools, RawPots>>))))>> >>)>>,
                      <<S_requestId, JStr(<<"r">>)>> >>)),
     Resolved(JArr(<<RawPots, RawTools>>)),
     Resolved(JStr(S_sorry)),
     Resolved(JStr(S_seeList)),
     Resolved(JObj(<< <<K_output, JStr(JSONstringify(JObj(<< <<S_foo, JNum(1)>> >>)))>> >>)),
     Resolved(JObj(<< <<S_foo, JNum(1)>> >>)),
     Resolved(JObj(<< <<K_output, JStr(<<>>)>> >>)),
     Resolved(JStr(<<>>)) >>

Decision(intent, targets) ==
  JObj(<< <<K_intent, JStr(intent)>>, <<K_targetCategories, JArr(targets)>> >>)

\* answers to the intent-analysis prompt
ClassifyResponses ==
  << Rejected,
     Resolved(Null),
     Resolved(JObj(<< <<K_data,
                        JObj(<< <<K_output,
                                  JStr(JSONstringify(Decision(S_specific, <<JStr(S_tools)>>)))>> >>)>> >>)),
     Resolved(Decision(S_specific, <<JStr(S_myPots)>>)),
     Resolved(Decision(S_specific, <<JStr(S_zzz)>>)),
     Resolved(JObj(<< <<K_output,
                        JStr(JSONstringify(Decision(S_full, <<JStr(S_tools)>>)))>> >>)),
     Resolved(JStr(S_sorry)),
     Resolved(JStr(<<"n", "u", "l", "l">>)),
     Resolved(Decision(S_specific, <<JNum(1)>>)) >>

UpdTools ==
  JObj(<< <<K_id, JStr(<<"a">>)>>, <<K_name, JStr(S_BlueTools)>>,
          <<K_searchTerms, JArr(<<JStr(S_blue)>>)>> >>)
UpdPots ==
  JObj(<< <<K_id, JStr(<<"b">>)>>, <<K_name, JStr(S_Vases)>>,
          <<K_type, JStr(S_vases)>> >>)

\* answers to the scoped update prompt
UpdateResponses ==
  << Rejected,
     Resolved(Null),
     Resolved(JObj(<< <<K_data,
                        JObj(<< <<K_output, JStr(JSONstringify(JArr(<<UpdTools>>)))>> >>)>> >>)),
     Resolved(JArr(<<UpdPots>>)),
     Resolved(JStr(S_sorry)),
     Resolved(JObj(<< <<S_foo, JNum(1)>> >>)),
     Resolved(JStr(JSONstringify(UpdTools))),
     Resolved(JArr(<<Null>>)) >>

(***************************************************************************)
(* What each answer leads to                                               *)
(***************************************************************************)
\* generateCategoriesWithAI after its await on settlement s: the branch taken and
\* the raw array
OutcomeOf(s) ==
  LET categories == ExtractCategories(s.v)
  IN IF s.kind = "reject" THEN [path |-> "reject"]
     ELSE IF ~Truthy(s.v) THEN [path |-> "falsy"]
     ELSE IF categories.ok THEN [path |-> "parsed", raw |-> categories.val]
     ELSE [path |-> "parseError"]

GenOutcome == [k \in 1..Len(GenResponses) |-> OutcomeOf(GenResponses[k])]

\* handleCategoryUpdate after the analysis await, up to the intent test
ClassifyOutcome ==
  [k \in 1..Len(ClassifyResponses) |->
     LET s == ClassifyResponses[k]
         analysis == ParseAnalysis(s.v)
     IN IF s.kind = "reject" THEN [path |-> "reject"]
        ELSE IF ~Truthy(s.v) THEN [path |-> "falsy"]
        ELSE IF IsNullish(analysis) THEN [path |-> "throw"]
        ELSE IF IsSpecific(analysis)
             THEN [path |-> "specific",
                   targets |-> Get(analysis, K_targetCategories).v]
        ELSE [path |-> "notSpecific"]]

\* handleCategoryUpdate after the update await, up to the Array.isArray test
UpdateOutcome ==
  [k \in 1..Len(UpdateResponses) |->
     LET s == UpdateResponses[k]
         updatedCategories == ParseUpdate(s.v)
     IN IF s.kind = "reject" THEN [path |-> "reject"]
        ELSE IF ~Truthy(s.v) THEN [path |-> "falsy"]
        ELSE IF IsArray(updatedCategories)
             THEN [path |-> "array", us |-> updatedCategories.v]
        ELSE [path |-> "notArray"]]

(***************************************************************************)
(* State                                                                   *)
(*                                                                         *)
(* mode, initialPrompt, latestPrompt: AgentExperience.  hasSearched:       *)
(* ResultsScreen.  generatedCategories, isGeneratingCategories: the        *)
(* ProductList instance that is mounted, or, while none is, the state the  *)
(* next one starts with.  calls: the handleCategoryUpdate invocations of   *)
(* the mounted instance that wait for an answer (an invocation of an       *)
(* unmounted instance changes no state: React ignores its setState).       *)
(* crashed: an updater threw while rendering and React unmounted the tree. *)
(* answers: the answers the hosted model has to offer with what the code's *)
(* parsing makes of each; fixed from the start.                            *)
(* last: the step taken last (a record of the run, not program state).     *)
(* agentInput: prompt, debouncedPrompt and the pending debounce timer of    *)
(* the AgentInput that is mounted (timer: the value its callback will set, *)
(* as a sequence of at most one).                                          *)
(***************************************************************************)
VARIABLES mode, initialPrompt, latestPrompt, hasSearched, generatedCategories,
          isGeneratingCategories, calls, crashed, answers, last, agentInput

vars == <<mode, initialPrompt, latestPrompt, hasSearched, generatedCategories,
          isGeneratingCategories, calls, crashed, answers, last, agentInput>>

\* AgentInput after its mount with the given defaultPrompt: useState('') twice,
\* then the effect on [defaultPrompt]
MountedInput(defaultPrompt) ==
  [prompt |-> defaultPrompt, debouncedPrompt |-> defaultPrompt, timer |-> <<>>]

\* ProductList is rendered
Mounted == mode = "results" /\ hasSearched /\ ~crashed

\* latestPrompt || initialPrompt, the prompt prop of ProductList
PromptProp(latest, initial) == IF latest # <<>> THEN latest ELSE initial

\* an invocation waiting for fal.subscribe inside generateCategoriesWithAI
GenCall(newPrompt) ==
  [pc |-> "generate", newPrompt |-> newPrompt, cats |-> <<>>, targetIds |-> <<>>]
\* an invocation waiting for the analysis; cats is the generatedCategories it
\* closed over, in the two fields target resolution reads of them
ClassifyCall(newPrompt, cats) ==
  [pc |-> "classify", newPrompt |-> newPrompt,
   cats |-> [i \in 1..Len(cats) |-> [id |-> cats[i].id, name |-> cats[i].name]],
   targetIds |-> <<>>]
\* an invocation waiting for the scoped update of targetCategoryIds
UpdateCall(newPrompt, ids) ==
  [pc |-> "update", newPrompt |-> newPrompt, cats |-> <<>>, targetIds |-> ids]

\* handleCategoryUpdate(newPrompt) up to its first await
handleCategoryUpdate(basePrompt, newPrompt, cats) ==
  IF basePrompt = <<>> \/ newPrompt = <<>> THEN GenCall(newPrompt)
  ELSE ClassifyCall(newPrompt, cats)

\* the effect on [prompt]: the calls in flight after it ran
PromptEffect(cs, basePrompt, prompt, cats) ==
  IF trim(prompt) = <<>> THEN cs
  ELSE Append(cs, handleCategoryUpdate(basePrompt, trim(prompt), cats))

\* setIsGeneratingCategories(true) of a generation the effect started
LoadingAfter(loading, cs, cs2) ==
  loading \/ (Len(cs2) > Len(cs) /\ cs2[Len(cs2)].pc = "generate")

RemoveAt(cs, i) == SubSeq(cs, 1, i - 1) \o SubSeq(cs, i + 1, Len(cs))

Init ==
  /\ mode = "intro"
  /\ initialPrompt = <<>>
  /\ latestPrompt = <<>>
  /\ hasSearched = FALSE
  /\ generatedCategories = <<>>
  /\ isGeneratingCategories = FALSE
  /\ calls = <<>>
  /\ crashed = FALSE
  /\ answers = [generate |-> GenOutcome, classify |-> ClassifyOutcome,
                update |-> UpdateOutcome]
  /\ last = [op |-> "Init", path |-> ""]
  /\ agentInput = MountedInput(<<>>)

\* IntroScreen sends p: AgentExperience.animateToResults, then ResultsScreen and
\* (when a prompt was sent) ProductList mount and the prompt effect runs.
animateToResults(p) ==
  /\ mode = "intro"
  /\ ~crashed
  /\ mode' = "results"
  /\ initialPrompt' = p
  /\ latestPrompt' = p
  /\ hasSearched' = (p # <<>>)
  /\ calls' = IF p # <<>> THEN PromptEffect(calls, p, PromptProp(p, p), <<>>) ELSE calls
  /\ isGeneratingCategories' = LoadingAfter(isGeneratingCategories, calls, calls')
  /\ last' = [op |-> "animateToResults", path |-> ""]
  /\ UNCHANGED <<generatedCategories, crashed, answers>>

\* ResultsScreen.handleSend({prompt: p}): setHasSearched(true) and
\* AgentExperience.handlePromptChange(p); ProductList mounts or sees its prompt
\* prop change, and the prompt effect runs.
handleSend(p) ==
  /\ mode = "results"
  /\ ~crashed
  /\ LET initial2 == IF p = <<>> THEN <<>> ELSE initialPrompt
         oldProp == PromptProp(latestPrompt, initialPrompt)
         newProp == PromptProp(p, initial2)
         fires == ~hasSearched \/ newProp # oldProp
         cs == IF fires
               THEN PromptEffect(calls, initial2, newProp, generatedCategories)
               ELSE calls
     IN /\ Len(cs) <= MaxInFlight
        /\ latestPrompt' = p
        /\ initialPrompt' = initial2
        /\ calls' = cs
        /\ isGeneratingCategories' = LoadingAfter(isGeneratingCategories, calls, cs)
        /\ last' = [op |-> "handleSend",
                    path |-> IF Len(cs) > Len(calls) THEN "update" ELSE "none"]
  /\ hasSearched' = TRUE
  /\ UNCHANGED <<mode, generatedCategories, crashed, answers>>

\* a reset that clears the prompts and leaves ProductList mounted (resetCounter
\* stays 0, so its reset effect does not run again)
ResetKeepsListMounted ==
  /\ Mounted
  /\ initialPrompt' = <<>>
  /\ latestPrompt' = <<>>
  /\ last' = [op |-> "handleReset", path |-> ""]
  /\ UNCHANGED <<mode, hasSearched, generatedCategories, isGeneratingCategories,
                 calls, crashed, answers>>

\* ResultsScreen.handleReset: onReset() and setHasSearched(false); ProductList
\* unmounts, and the next instance starts from useState([]) and useState(false).
handleReset ==
  /\ Mounted
  /\ initialPrompt' = <<>>
  /\ latestPrompt' = <<>>
  /\ hasSearched' = FALSE
  /\ generatedCategories' = <<>>
  /\ isGeneratingCategories' = FALSE
  /\ calls' = <<>>
  /\ last' = [op |-> "handleReset", path |-> ""]
  /\ UNCHANGED <<mode, crashed, answers>>

\* an invocation that returns where it should fall through to the full refresh
ReturnsEarly(i, op, path) ==
  /\ calls' = RemoveAt(calls, i)
  /\ last' = [op |-> op, path |-> path]
  /\ UNCHANGED <<generatedCategories, isGeneratingCategories, crashed, answers>>

\* "Doing full refresh": generateCategoriesWithAI(newPrompt) up to its await
FullRefresh(i, op, path) ==
  /\ calls' = [calls EXCEPT ![i] = GenCall(calls[i].newPrompt)]
  /\ isGeneratingCategories' = TRUE
  /\ last' = [op |-> op, path |-> path]
  /\ UNCHANGED <<generatedCategories, crashed, answers>>

\* a branch choice without the test targetCategoryIds.length > 0
IgnoresTargetCount(o, cats) ==
  IF o.path # "specific" THEN o.path
  ELSE IF ResolveThrows(cats, o.targets) THEN "throw"
  ELSE "specific"

\* The branch handleCategoryUpdate takes on an analysis answer of outcome o with
\* the closed-over categories cats: reject, falsy, throw, notSpecific, noTargets
\* or specific.
ClassifyPath(o, cats) ==
  IF o.path # "specific" THEN o.path
  ELSE IF ResolveThrows(cats, o.targets) THEN "throw"
  ELSE IF Len(ResolveTargets(cats, o.targets)) = 0 THEN "noTargets"
  ELSE "specific"

\* The analysis call of invocation i settles with answer k.
ClassifierSettles(i, k) ==
  /\ calls[i].pc = "classify"
  /\ LET c == calls[i]
         path == ClassifyPath(answers.classify[k], c.cats)
         ids == ResolveTargets(c.cats, answers.classify[k].targets)
     IN IF path = "specific"
        THEN /\ generatedCategories' = MarkUpdating(generatedCategories, ids)
             /\ calls' = [calls EXCEPT ![i] = UpdateCall(c.newPrompt, ids)]
             /\ last' = [op |-> "ClassifierSettles", path |-> path]
             /\ UNCHANGED <<isGeneratingCategories, crashed>>
        ELSE FullRefresh(i, "ClassifierSettles", path)
  /\ UNCHANGED <<mode, initialPrompt, latestPrompt, hasSearched, answers>>

\* The branch taken on an update answer of outcome o against the current
\* categories prev: reject, falsy, notArray, crash (the updater throws while
\* rendering) or merged.
UpdatePath(o, prev) ==
  IF o.path # "array" THEN o.path
  ELSE IF MergeThrows(prev, o.us) THEN "crash"
  ELSE "merged"

\* The scoped update call of invocation i settles with answer k.
UpdateSettles(i, k) ==
  /\ calls[i].pc = "update"
  /\ LET path == UpdatePath(answers.update[k], generatedCategories)
     IN CASE path = "merged" ->
               /\ generatedCategories' =
                    MergeUpdated(generatedCategories, answers.update[k].us)
               /\ calls' = RemoveAt(calls, i)
               /\ last' = [op |-> "UpdateSettles", path |-> path]
               /\ UNCHANGED <<isGeneratingCategories, crashed>>
          [] path = "crash" ->
               /\ crashed' = TRUE
               /\ generatedCategories' = <<>>
               /\ isGeneratingCategories' = FALSE
               /\ calls' = <<>>
               /\ last' = [op |-> "UpdateSettles", path |-> path]
          [] OTHER -> FullRefresh(i, "UpdateSettles", path)
  /\ UNCHANGED <<mode, initialPrompt, latestPrompt, hasSearched, answers>>

\* The batch generateCategoriesWithAI(prompt) leaves on an answer of outcome o
\* at time now
GeneratedBatch(o, prompt, now, prev) ==
  CASE o.path = "reject" -> ApiFallback(prompt)
    [] o.path = "falsy" -> prev
    [] o.path = "parsed" -> SortByPriority(NormalizeAll(o.raw, now))
    [] OTHER -> ParseFallback(prompt)

\* The full-generation call of invocation i settles with answer k at time now.
GenerationSettles(i, k, now) ==
  /\ calls[i].pc = "generate"
  /\ generatedCategories' =
       GeneratedBatch(answers.generate[k], calls[i].newPrompt, now, generatedCategories)
  /\ isGeneratingCategories' = FALSE
  /\ calls' = RemoveAt(calls, i)
  /\ last' = [op |-> "GenerationSettles", path |-> answers.generate[k].path]
  /\ UNCHANGED <<mode, initialPrompt, latestPrompt, hasSearched, crashed, answers>>

\* The prompts come from PromptInputs (whatever an AgentInput sends, or an idea
\* pill); the state of the AgentInput is left aside.
Next ==
  \/ \E p \in IntroPrompts : animateToResults(p) /\ UNCHANGED agentInput
  \/ \E p \in PromptInputs : handleSend(p) /\ UNCHANGED agentInput
  \/ handleReset /\ UNCHANGED agentInput
  \/ \E i \in 1..Len(calls) : \E k \in DOMAIN answers.classify :
        ClassifierSettles(i, k) /\ UNCHANGED agentInput
  \/ \E i \in 1..Len(calls) : \E k \in DOMAIN answers.update :
        UpdateSettles(i, k) /\ UNCHANGED agentInput
  \/ \E i \in 1..Len(calls) : \E k \in DOMAIN answers.generate : \E now \in Clock :
        GenerationSettles(i, k, now) /\ UNCHANGED agentInput

Spec == Init /\ [][Next]_vars

(***************************************************************************)
(* The generation pipeline on array answers: one JSON array, answered as   *)
(* its text, inside a json code fence, encoded once more as a JSON string, *)
(* and as the array itself, to a list whose generation call is in flight.  *)
(***************************************************************************)
S_Tool == <<"T", "o", "o", "l">>
S_Soil == <<"S", "o", "i", "l">>
S_App == <<"A", "p", "p">>
S_Bins == <<"B", "i", "n", "s">>

\* what an element of the answered array may be
Elements ==
  { Null,
    JNum(7),
    JStr(<<"[", "\"", "]">>),
    RawPots,
    JObj(<< <<K_name, JStr(S_Tool)>>, <<K_type, JStr(S_tools)>>,
            <<K_priority, JNum(4)>>,
            <<K_searchTerms, JArr(<<JStr(<<"x">>), JNum(1)>>)>> >>),
    JObj(<< <<K_title, JStr(S_Soil)>>, <<K_type, JStr(S_consumables)>>,
            <<K_priority, JStr(<<"2">>)>> >>),
    JObj(<< <<K_name, JStr(S_App)>>, <<K_type, JStr(S_planning_app)>>,
            <<K_priority, Null>>, <<K_searchTerms, JStr(<<"x">>)>> >>),
    JObj(<< <<K_id, JStr(<<"c">>)>>, <<K_name, JStr(S_Bins)>>,
            <<K_type, JStr(S_containers)>>, <<K_priority, JNum(4)>>,
            <<K_reason, JStr(<<"r">>)>> >>) }

\* the answered array has at most this many elements
MaxElems == 2

ArrayInputs == UNION {[1..n -> Elements] : n \in 0..MaxElems}

\* Date.now() at the normalizations of the pipeline runs
Times == {1, 2}

\* the answers that carry the array arr; the last one is an object envelope with
\* the text in its text field beside a data object that has no output
ResponsesFor(arr) ==
  LET T == JSONstringify(JArr(arr))
  IN [plain |-> Resolved(JStr(T)),
      fenced |-> Resolved(JStr(Fenced(T))),
      encoded |-> Resolved(JStr(JSONstringify(JStr(T)))),
      array |-> Resolved(JArr(arr)),
      textBesideData |->
        Resolved(JObj(<< <<K_data, JObj(<< <<S_requestId, JStr(<<"r">>)>> >>)>>,
                         <<K_text, JStr(T)>> >>))]

PipelineInit ==
  /\ mode = "results"
  /\ initialPrompt = P_pots
  /\ latestPrompt = P_pots
  /\ hasSearched = TRUE
  /\ generatedCategories = <<>>
  /\ isGeneratingCategories = TRUE
  /\ calls = <<GenCall(P_pots)>>
  /\ crashed = FALSE
  /\ \E arr \in ArrayInputs :
       answers = [generate |-> [k \in DOMAIN ResponsesFor(arr) |->
                                 OutcomeOf(ResponsesFor(arr)[k])],
                  classify |-> <<>>, update |-> <<>>, input |-> arr]
  /\ last = [op |-> "Init", path |-> ""]
  /\ agentInput = MountedInput(<<>>)

\* The full-generation call of invocation i settles with answer k in a list that
\* runs the first revision of generateCategoriesWithAI.
FirstRevisionSettles(i, k) ==
  /\ calls[i].pc = "generate"
  /\ generatedCategories' = GeneratedBatchFirst(answers.generate[k], generatedCategories)
  /\ isGeneratingCategories' = FALSE
  /\ calls' = RemoveAt(calls, i)
  /\ last' = [op |-> "FirstRevisionSettles", path |-> answers.generate[k].path]
  /\ UNCHANGED <<mode, initialPrompt, latestPrompt, hasSearched, crashed, answers>>

PipelineNext ==
  \/ \E i \in 1..Len(calls) : \E k \in DOMAIN answers.generate : \E now \in Times :
        GenerationSettles(i, k, now) /\ UNCHANGED agentInput
  \/ \E i \in 1..Len(calls) : \E k \in DOMAIN answers.generate :
        FirstRevisionSettles(i, k) /\ UNCHANGED agentInput

PipelineSpec == PipelineInit /\ [][PipelineNext]_vars

(***************************************************************************)
(* AgentInput (text only: no image is picked) in front of the screens, with *)
(* a hosted model that rejects every call.                                 *)
(***************************************************************************)
\* what the text area may hold after a change
Texts == {<<>>, <<"a">>, <<"a", "b">>}

\* the textarea's onChange: debouncedSetPrompt(value)
debouncedSetPrompt(value) ==
  /\ ~crashed
  /\ value # agentInput.prompt
  /\ agentInput' = [agentInput EXCEPT !.prompt = value, !.timer = <<value>>]
  /\ last' = [op |-> "debouncedSetPrompt", path |-> ""]
  /\ UNCHANGED <<mode, initialPrompt, latestPrompt, hasSearched, generatedCategories,
                 isGeneratingCategories, calls, crashed, answers>>

\* the callback of setTimeout(..., debounceMs): setDebouncedPrompt(value)
DebounceExpires ==
  /\ agentInput.timer # <<>>
  /\ agentInput' = [agentInput EXCEPT !.debouncedPrompt = agentInput.timer[1],
                                       !.timer = <<>>]
  /\ last' = [op |-> "DebounceExpires", path |-> ""]
  /\ UNCHANGED <<mode, initialPrompt, latestPrompt, hasSearched, generatedCategories,
                 isGeneratingCategories, calls, crashed, answers>>

\* debouncedPrompt || prompt
FinalPrompt(input) ==
  IF input.debouncedPrompt # <<>> THEN input.debouncedPrompt ELSE input.prompt

\* AgentInput after onSend of an instance that stays mounted: the effect on
\* [defaultPrompt] runs when the prop has changed
DefaultPromptEffect(input, oldDefault, newDefault) ==
  IF newDefault # oldDefault /\ newDefault # <<>> /\ newDefault # input.prompt
  THEN [input EXCEPT !.prompt = newDefault, !.debouncedPrompt = newDefault]
  ELSE input

\* AgentInput.handleSend without an image: onSend({prompt: finalPrompt}), which is
\* animateToResults on the intro screen and ResultsScreen.handleSend after it; the
\* instance is replaced by a new one when the screen or hasSearched changes.
AgentInputSend ==
  /\ agentInput.debouncedPrompt # <<>> \/ agentInput.prompt # <<>>
  /\ IF mode = "intro"
     THEN animateToResults(FinalPrompt(agentInput))
     ELSE handleSend(FinalPrompt(agentInput))
  /\ agentInput' =
       IF mode = "intro" \/ ~hasSearched
       THEN MountedInput(IF hasSearched' THEN PromptProp(latestPrompt', initialPrompt')
                         ELSE <<>>)
       ELSE DefaultPromptEffect(agentInput, PromptProp(latestPrompt, initialPrompt),
                                PromptProp(latestPrompt', initialPrompt'))

\* the Reset button: ResultsScreen.handleReset; the AgentInput of the searched
\* screen unmounts (its cleanup clears the timer) and a new one mounts
ResetWithInput ==
  /\ handleReset
  /\ agentInput' = MountedInput(<<>>)

InputInit ==
  /\ mode = "intro"
  /\ initialPrompt = <<>>
  /\ latestPrompt = <<>>
  /\ hasSearched = FALSE
  /\ generatedCategories = <<>>
  /\ isGeneratingCategories = FALSE
  /\ calls = <<>>
  /\ crashed = FALSE
  /\ answers = [generate |-> <<OutcomeOf(Rejected)>>,
                classify |-> <<[path |-> "reject"]>>,
                update |-> <<>>]
  /\ last = [op |-> "Init", path |-> ""]
  /\ agentInput = MountedInput(<<>>)

InputNext ==
  \/ \E value \in Texts : debouncedSetPrompt(value)
  \/ DebounceExpires
  \/ AgentInputSend
  \/ ResetWithInput
  \/ \E i \in 1..Len(calls) : \E k \in DOMAIN answers.classify :
        ClassifierSettles(i, k) /\ UNCHANGED agentInput
  \/ \E i \in 1..Len(calls) : \E k \in DOMAIN answers.generate : \E now \in Clock :
        GenerationSettles(i, k, now) /\ UNCHANGED agentInput

InputSpec == InputInit /\ [][InputNext]_vars

(***************************************************************************)
(* Properties                                                              *)
(***************************************************************************)
\* some invocation waits for a call of the given kind
InFlight(pc) == \E i \in 1..Len(calls) : calls[i].pc = pc

\* the content fields of two categories agree
SameContent(c, d) ==
  \A f \in {"name", "description", "searchTerms", "priority", "type", "reason"} :
    c[f] = d[f]

\* invocation i goes on to generateCategoriesWithAI(newPrompt); nothing else starts
Regenerates(i) ==
  /\ calls' = [calls EXCEPT ![i] = GenCall(calls[i].newPrompt)]
  /\ isGeneratingCategories'
  /\ ~crashed'

SomeUpdating == \E j \in 1..Len(generatedCategories) :
                  generatedCategories[j].isUpdating = JBool(TRUE)

\* C1: when the scoped update of an invocation completes with the merge, every
\* category whose id is not among the invocation's target ids has the same name,
\* description, searchTerms, priority, type and reason as before, whatever the
\* update call answered.
C1_NonTargetsUnchanged ==
  [][\A i \in 1..Len(calls) : \A k \in DOMAIN answers.update :
       (UpdateSettles(i, k) /\ last'.path = "merged") =>
         \A j \in 1..Len(generatedCategories) :
           ~IdIncluded(calls[i].targetIds, generatedCategories[j].id) =>
             SameContent(generatedCategories[j], generatedCategories'[j])]_vars

\* C2: while the scoped update call of an invocation is in flight, every category
\* with isUpdating = true has its id among that invocation's target ids.
C2_OnlyTargetsMarked ==
  \A i \in 1..Len(calls) :
    calls[i].pc = "update" =>
      \A j \in 1..Len(generatedCategories) :
        generatedCategories[j].isUpdating = JBool(TRUE) =>
          IdIncluded(calls[i].targetIds, generatedCategories[j].id)

\* C3: in no reachable state is a full-generation call in flight while a scoped
\* update call is in flight.
C3_MutuallyExclusive == ~(InFlight("generate") /\ InFlight("update"))

\* C4: a full generation whose answer yields no array (an empty answer, or one the
\* parsing steps reject) leaves a non-empty batch and does not crash the list.
C4_UnusableAnswerFallsBack ==
  [][\A i \in 1..Len(calls) : \A k \in DOMAIN answers.generate : \A now \in Clock :
       (GenerationSettles(i, k, now)
          /\ answers.generate[k].path \in {"falsy", "parseError"}) =>
         Len(generatedCategories') > 0 /\ ~crashed']_vars

\* C5: a rejected classifier call and a rejected update call lead to a full
\* regeneration with the invocation's new message; a rejected full-generation call
\* sets the batch to the one-element fallback of the outer catch, made from the
\* invocation's prompt, and clears the loading flag; none of them crashes the list.
C5_RejectionsDegrade ==
  [][/\ last' = [op |-> "ClassifierSettles", path |-> "reject"] =>
          \E i \in 1..Len(calls) : calls[i].pc = "classify" /\ Regenerates(i)
     /\ last' = [op |-> "UpdateSettles", path |-> "reject"] =>
          \E i \in 1..Len(calls) : calls[i].pc = "update" /\ Regenerates(i)
     /\ last' = [op |-> "GenerationSettles", path |-> "reject"] =>
          \E i \in 1..Len(calls) :
            /\ calls[i].pc = "generate"
            /\ calls' = RemoveAt(calls, i)
            /\ Len(generatedCategories') = 1
            /\ generatedCategories'[1].id = JStr(S_fallbackGeneral2)
            /\ generatedCategories'[1].searchTerms =
                 JArr(<<JStr(FirstThreeWords(calls[i].newPrompt))>>)
            /\ ~isGeneratingCategories'
            /\ ~crashed']_vars

\* an update call was rejected and the invocation waits for its full generation
C5_Witness ==
  /\ last = [op |-> "UpdateSettles", path |-> "reject"]
  /\ InFlight("generate")
  /\ isGeneratingCategories

\* the truthy answers to the update prompt that are a string JSON.parse rejects or
\* an envelope whose output is neither an array nor a string
UnparseableUpdates ==
  {k \in DOMAIN UpdateResponses :
     LET s == UpdateResponses[k]
     IN /\ s.kind = "resolve"
        /\ Truthy(s.v)
        /\ \/ IsString(s.v) /\ ~JSONparse(s.v.v).ok
           \/ /\ s.v.t = "obj"
              /\ ~IsArray(EnvelopeOutput(s.v))
              /\ ~IsString(EnvelopeOutput(s.v))}

\* C6: when the answer of the scoped update call cannot be parsed into an array of
\* records, the invocation goes on to a full regeneration with its new message.
C6_UnparseableUpdateRegenerates ==
  [][\A i \in 1..Len(calls) : \A k \in UnparseableUpdates :
       UpdateSettles(i, k) => Regenerates(i)]_vars

\* C7: when the classifier answers "specific" and no target fragment matches a
\* category of the current batch, the step marks nothing, issues no update call and
\* starts a full regeneration with the new message.
C7_NoTargetsRegenerates ==
  [][\A i \in 1..Len(calls) : \A k \in DOMAIN answers.classify :
       (/\ ClassifierSettles(i, k)
        /\ answers.classify[k].path = "specific"
        /\ ~ResolveThrows(generatedCategories, answers.classify[k].targets)
        /\ ResolveTargets(generatedCategories, answers.classify[k].targets) = <<>>)
       => (generatedCategories' = generatedCategories /\ Regenerates(i))]_vars

\* C8: when the classifier's answer is empty, cannot be read as a decision, or is
\* no "specific" decision with targets, the step leaves the batch as it is and
\* starts a full regeneration with the new message.
C8_ClassifierAdvisory ==
  [][(last'.op = "ClassifierSettles" /\ last'.path \in {"falsy", "throw", "notSpecific"}) =>
       /\ generatedCategories' = generatedCategories
       /\ \E i \in 1..Len(calls) : calls[i].pc = "classify" /\ Regenerates(i)]_vars

\* a non-empty batch stays as it was while the regeneration a non-specific answer
\* led to is in flight
C8_Witness ==
  /\ last = [op |-> "ClassifierSettles", path |-> "notSpecific"]
  /\ Len(generatedCategories) > 0
  /\ InFlight("generate")

\* C9: once every call has settled for a list that shows a non-empty prompt, the
\* loading flag is false, no category is marked isUpdating and the batch is
\* non-empty.
C9_SettledShowsSomething ==
  (Mounted /\ calls = <<>> /\ trim(PromptProp(latestPrompt, initialPrompt)) # <<>>) =>
    (~isGeneratingCategories /\ ~SomeUpdating /\ Len(generatedCategories) > 0)

\* C10: after a reset the batch is empty.
C10_ResetEmptiesBatch == last.op = "handleReset" => generatedCategories = <<>>

\* the reset has happened and no list is shown
C10_Witness == last.op = "handleReset" /\ ~hasSearched /\ generatedCategories = <<>>

\* C11: a prompt sent while the batch is empty starts an invocation that holds an
\* empty list of categories (or goes straight to the full generation), and when the
\* classifier call of such an invocation settles, whatever it answers, no category
\* is marked, no update call is issued and the full generation starts.
C11_EmptyBatchAlwaysGenerates ==
  [][/\ (/\ last'.op \in {"handleSend", "animateToResults"}
         /\ Len(calls') > Len(calls)
         /\ generatedCategories = <<>>) =>
          /\ calls'[Len(calls')].pc \in {"generate", "classify"}
          /\ calls'[Len(calls')].cats = <<>>
     /\ \A i \in 1..Len(calls) :
          (/\ last'.op = "ClassifierSettles"
           /\ calls[i].pc = "classify"
           /\ calls[i].cats = <<>>
           /\ calls'[i] # calls[i]) =>
            /\ generatedCategories' = generatedCategories
            /\ Regenerates(i)]_vars

\* on an empty batch the classifier answered "specific" with targets, and the
\* invocation waits for its full generation with nothing marked
C11_Witness ==
  /\ last = [op |-> "ClassifierSettles", path |-> "noTargets"]
  /\ generatedCategories = <<>>
  /\ InFlight("generate")
  /\ ~InFlight("update")

\* C12: whenever no call to the hosted model is in flight, no category of the batch
\* has isUpdating = true.
C12_IdleNotUpdating == calls = <<>> => ~SomeUpdating

\* the ids of a batch, in order
IdsOf(cats) == [j \in 1..Len(cats) |-> cats[j].id]

\* C13: the marking step and the merge of an incremental update leave the batch with
\* the same length and the same ids in the same order.
C13_UpdateKeepsIds ==
  [][(\/ last' = [op |-> "ClassifierSettles", path |-> "specific"]
      \/ last' = [op |-> "UpdateSettles", path |-> "merged"]) =>
       IdsOf(generatedCategories') = IdsOf(generatedCategories)]_vars

\* a merge has renamed a category of a batch of two
C13_Witness ==
  /\ last = [op |-> "UpdateSettles", path |-> "merged"]
  /\ Len(generatedCategories) = 2
  /\ \E j \in 1..2 : generatedCategories[j].name \in {JStr(S_BlueTools), JStr(S_Vases)}

\* C14: every category of the batch has one of the seven allowed types.
C14_TypesAllowed ==
  \A j \in 1..Len(generatedCategories) :
    /\ IsString(generatedCategories[j].type)
    /\ generatedCategories[j].type.v \in AllowedTypes

\* C15: after a full generation whose answer was parsed, the batch has a category
\* of each required type.
C15_RequiredTypesPresent ==
  last = [op |-> "GenerationSettles", path |-> "parsed"] =>
    \A t \in Range(requiredTypes) :
      \E j \in 1..Len(generatedCategories) : generatedCategories[j].type = JStr(t)

\* C16: the first revision's diversity step leaves the model-provided categories
\* first, with their content and in priority order (highest first, ties in the
\* order of the answer), and every category after them is a synthesized one,
\* whatever its priority.
C16_SynthesizedAppended ==
  [][\A i \in 1..Len(calls) : \A k \in DOMAIN answers.generate :
       (FirstRevisionSettles(i, k) /\ answers.generate[k].path = "parsed") =>
         LET provided == SortByPriority(NormalizeAllFirst(answers.generate[k].raw))
             n == Len(provided)
             batch == generatedCategories'
         IN /\ Len(batch) >= n
            /\ SubSeq(batch, 1, n) = provided
            /\ \A a, b \in 1..n : a < b => batch[a].priority.v >= batch[b].priority.v
            /\ \A j \in (n + 1)..Len(batch) :
                 batch[j] \in {Synthesized(t) : t \in Range(requiredTypes)}]_vars

\* a synthesized category stands after a model-provided one of lower priority
C16_Witness ==
  /\ last = [op |-> "FirstRevisionSettles", path |-> "parsed"]
  /\ \E a \in 1..Len(answers.input) : \E b \in (Len(answers.input) + 1)..Len(generatedCategories) :
       /\ generatedCategories[b] \in {Synthesized(t) : t \in Range(requiredTypes)}
       /\ generatedCategories[a].priority.v < generatedCategories[b].priority.v

\* C17: when the answer is a JSON array (its text, or the array itself), the batch
\* has as many categories as the array has elements, and each has an id, a name, a
\* list of search terms, a numeric priority and a type.
C17_NormalizerKeepsLength ==
  [][\A i \in 1..Len(calls) : \A k \in {"plain", "array"} : \A now \in Times :
       GenerationSettles(i, k, now) =>
         /\ Len(generatedCategories') = Len(answers.input)
         /\ \A j \in 1..Len(generatedCategories') :
              LET c == generatedCategories'[j]
              IN /\ ~IsNullish(c.id)
                 /\ IsString(c.name)
                 /\ IsArray(c.searchTerms)
                 /\ c.priority.t = "num"
                 /\ IsString(c.type)]_vars

\* an array of null and a number was normalized into two categories
C17_Witness ==
  /\ last = [op |-> "GenerationSettles", path |-> "parsed"]
  /\ answers.input = <<Null, JNum(7)>>
  /\ Len(generatedCategories) = 2

\* an id the normalizer made up
IsSynthesizedId(id) == IsString(id) /\ StartsWithAt(id.v, 1, S_aiGenerated)

\* two batches agree in everything but the ids the normalizer made up
SameUpToSynthesizedIds(a, b) ==
  /\ Len(a) = Len(b)
  /\ \A j \in 1..Len(a) :
       /\ SameContent(a[j], b[j])
       /\ a[j].id = b[j].id \/ (IsSynthesizedId(a[j].id) /\ IsSynthesizedId(b[j].id))

\* two batches agree in everything but the ids
SameIgnoringIds(a, b) ==
  /\ Len(a) = Len(b)
  /\ \A j \in 1..Len(a) : SameContent(a[j], b[j])

\* the batch of the second revision agrees with the one answer k leaves at any time
AgreesWithAnswer(i, k) ==
  \A now \in Times :
    SameUpToSynthesizedIds(
      generatedCategories',
      GeneratedBatch(answers.generate[k], calls[i].newPrompt, now, generatedCategories))

\* C18: the answer that is a JSON array text inside a json code fence leaves the
\* same batch, up to the ids the normalizer makes up, as the text itself.
C18_FenceEquivalence ==
  [][\A i \in 1..Len(calls) : \A now \in Times :
       GenerationSettles(i, "fenced", now) => AgreesWithAnswer(i, "plain")]_vars

\* the fenced text of an array of two elements was parsed and normalized
C18_Witness ==
  /\ last = [op |-> "GenerationSettles", path |-> "parsed"]
  /\ answers.generate.fenced.path = "parsed"
  /\ Len(answers.input) = 2
  /\ \E now \in Times :
       generatedCategories = SortByPriority(NormalizeAll(answers.generate.fenced.raw, now))

\* C19: the answer that is a JSON array text encoded once more as a JSON string
\* leaves the same batch as the text itself: the very same when both are
\* normalized at the same time, and the same up to the ids made up from the time
\* otherwise.
C19_DoubleEncodingEquivalence ==
  [][\A i \in 1..Len(calls) : \A now \in Times :
       GenerationSettles(i, "encoded", now) =>
         /\ generatedCategories' =
              GeneratedBatch(answers.generate.plain, calls[i].newPrompt, now,
                             generatedCategories)
         /\ AgreesWithAnswer(i, "plain")]_vars

\* the twice-encoded text of an array with a string that needs escapes was parsed
C19_Witness ==
  /\ last = [op |-> "GenerationSettles", path |-> "parsed"]
  /\ answers.generate.encoded.path = "parsed"
  /\ \E j \in 1..Len(answers.input) : answers.input[j] = JStr(<<"[", "\"", "]">>)
  /\ \E now \in Times :
       generatedCategories = SortByPriority(NormalizeAll(answers.generate.encoded.raw, now))

\* C20: the batch a full generation leaves agrees, ids aside, with the batch the
\* same prompt and the same answer leave on a list whose batch is empty.
C20_SameAnswerSameBatch ==
  [][\A i \in 1..Len(calls) : \A k \in DOMAIN answers.generate : \A now \in Clock :
       GenerationSettles(i, k, now) =>
         SameIgnoringIds(
           generatedCategories',
           GeneratedBatch(answers.generate[k], calls[i].newPrompt, now, <<>>))]_vars

\* the batch `after` is the batch `before` with, for each category, the fields of
\* the first record of us that has the category's id written over its own
FollowsMergeRule(before, us, after) ==
  /\ Len(after) = Len(before)
  /\ \A j \in 1..Len(before) :
       LET matching == {m \in 1..Len(us) : StrictEq(Get(us[m], K_id), before[j].id)}
           first == CHOOSE m \in matching : \A n \in matching : m <= n
       IN /\ after[j].isUpdating = JBool(FALSE)
          /\ \A f \in CatFields \ {"isUpdating"} :
               IF matching # {} /\ HasOwn(us[first], KeyOf[f])
               THEN after[j][f] = Get(us[first], KeyOf[f])
               ELSE after[j][f] = before[j][f]

\* C21: when the scoped update completes with the merge, every category for which
\* the answer has a record with the same id has each field present in the record
\* overwritten by the record's value and every other field retained, every category
\* without such a record keeps all its fields, and all have isUpdating = false.
C21_MergeRule ==
  [][(last'.op = "UpdateSettles" /\ last'.path = "merged") =>
       \A i \in 1..Len(calls) : \A k \in DOMAIN answers.update :
         UpdateSettles(i, k) =>
           FollowsMergeRule(generatedCategories, answers.update[k].us,
                            generatedCategories')]_vars

\* a merge renamed category a and gave it new search terms, kept its priority and
\* type, and left category b as it was
C21_Witness ==
  /\ last = [op |-> "UpdateSettles", path |-> "merged"]
  /\ \E j, m \in 1..Len(generatedCategories) :
       /\ generatedCategories[j].id = JStr(<<"a">>)
       /\ generatedCategories[j].name = JStr(S_BlueTools)
       /\ generatedCategories[j].searchTerms = JArr(<<JStr(S_blue)>>)
       /\ generatedCategories[j].priority = JNum(4)
       /\ generatedCategories[j].type = JStr(S_tools)
       /\ generatedCategories[j].isUpdating = JBool(FALSE)
       /\ generatedCategories[m].id = JStr(<<"b">>)
       /\ generatedCategories[m].name = JStr(S_Pots)
       /\ generatedCategories[m].isUpdating = JBool(FALSE)

\* C22: an object envelope whose output and data.output are neither an array nor a
\* string and whose text field is a string is extracted from that field: it leaves
\* the batch the text itself leaves, up to the ids the normalizer makes up.
C22_TextFieldExtracted ==
  [][\A i \in 1..Len(calls) : \A now \in Times :
       GenerationSettles(i, "textBesideData", now) => AgreesWithAnswer(i, "plain")]_vars

\* the priority the rule gives element c: the number it carries (a numeric string
\* counted as its number), and 3 when it is missing, null or not numeric
StatedPriority(c) ==
  LET p == Get(c, K_priority)
  IN IF IsNullish(p) THEN JNum(3)
     ELSE IF IsFinite(ToNumber(p)) THEN ToNumber(p)
     ELSE JNum(3)

\* C23: after a full generation whose answer was parsed, the priorities of the batch
\* are, value by value, those the rule gives the elements of the answered array:
\* the element's own number, and 3 where it is missing, null or not numeric.
C23_PriorityCoercion ==
  last = [op |-> "GenerationSettles", path |-> "parsed"] =>
    \A v \in {StatedPriority(answers.input[j]) : j \in 1..Len(answers.input)}
             \cup {generatedCategories[j].priority : j \in 1..Len(generatedCategories)} :
      Cardinality({j \in 1..Len(generatedCategories) : generatedCategories[j].priority = v})
        = Cardinality({j \in 1..Len(answers.input) : StatedPriority(answers.input[j]) = v})

\* `batch` holds the categories of `normalized`, highest priority first, those of
\* equal priority in the order they have in `normalized`
IsStableDescending(normalized, batch) ==
  /\ Len(batch) = Len(normalized)
  /\ \E pi \in [1..Len(batch) -> 1..Len(batch)] :
       /\ \A a, b \in 1..Len(batch) : a # b => pi[a] # pi[b]
       /\ \A a \in 1..Len(batch) : batch[a] = normalized[pi[a]]
       /\ \A a, b \in 1..Len(batch) :
            a < b => \/ batch[a].priority.v > batch[b].priority.v
                     \/ batch[a].priority.v = batch[b].priority.v /\ pi[a] < pi[b]

\* C24: after a full generation whose answer was parsed, the categories stand in
\* non-increasing order of normalized priority, and those of equal priority in the
\* order they had in the answer.
C24_SortedStably ==
  [][\A i \in 1..Len(calls) : \A k \in DOMAIN answers.generate : \A now \in Times :
       (GenerationSettles(i, k, now) /\ answers.generate[k].path = "parsed") =>
         IsStableDescending(NormalizeAll(answers.generate[k].raw, now),
                            generatedCategories')]_vars

\* two different categories of priority 4 stand in the order of the answer
C24_Witness ==
  /\ last = [op |-> "GenerationSettles", path |-> "parsed"]
  /\ Len(generatedCategories) = 2
  /\ Get(answers.input[1], K_name) = JStr(S_Tool)
  /\ Get(answers.input[2], K_name) = JStr(S_Bins)
  /\ generatedCategories[1].priority = JNum(4)
  /\ generatedCategories[2].priority = JNum(4)
  /\ generatedCategories[1].name = JStr(S_Tool)
  /\ generatedCategories[2].name = JStr(S_Bins)

\* p occurs in s as a run of consecutive characters
Contains(s, p) == \E a \in 1..(Len(s) + 1) : \E b \in (a - 1)..Len(s) : Slice(s, a, b) = p

\* the categories of cats that some fragment of targets names: the lower-cased
\* name contains the lower-cased fragment, or the fragment the name
NamedBy(cats, targets) ==
  {j \in 1..Len(cats) :
     \E m \in 1..Len(targets) :
       \/ Contains(toLowerCase(cats[j].name.v), toLowerCase(targets[m].v))
       \/ Contains(toLowerCase(targets[m].v), toLowerCase(cats[j].name.v))}

\* C25: when the classifier's "specific" answer is resolved, the target id set of
\* the invocation is exactly the set of ids of the categories (those the invocation
\* read) that some fragment names, the containment taken in lower case and in
\* either direction; the update is issued for that set when it is not empty, and
\* none is issued when it is.
C25_TargetResolution ==
  [][(last'.op = "ClassifierSettles" /\ last'.path \in {"specific", "noTargets"}) =>
       \A i \in 1..Len(calls) : \A k \in DOMAIN answers.classify :
         ClassifierSettles(i, k) =>
           LET named == {calls[i].cats[j].id :
                           j \in NamedBy(calls[i].cats, answers.classify[k].targets)}
           IN IF named = {} THEN calls'[i].pc = "generate"
              ELSE /\ calls'[i].pc = "update"
                   /\ Range(calls'[i].targetIds) = named]_vars

\* of the categories Garden Tools (a) and Pots (b) exactly a is the target of an
\* update in flight
C25_Witness ==
  /\ last = [op |-> "ClassifierSettles", path |-> "specific"]
  /\ Len(generatedCategories) = 2
  /\ \E j, m \in 1..2 :
       /\ generatedCategories[j].id = JStr(<<"a">>)
       /\ generatedCategories[j].name = JStr(S_GardenTools)
       /\ generatedCategories[m].id = JStr(<<"b">>)
       /\ generatedCategories[m].name = JStr(S_Pots)
  /\ \E i \in 1..Len(calls) : calls[i].pc = "update" /\ calls[i].targetIds = <<JStr(<<"a">>)>>

\* C26: once every call has settled, a batch that the last settled generation wrote
\* (the fallback made from the prompt of its invocation) is the one made from the
\* prompt submitted last.
C26_LastPromptWins ==
  (/\ last.op = "GenerationSettles"
   /\ last.path \in {"reject", "parseError"}
   /\ calls = <<>>
   /\ trim(latestPrompt) # <<>>) =>
    /\ Len(generatedCategories) = 1
    /\ generatedCategories[1].searchTerms =
         JArr(<<JStr(FirstThreeWords(trim(latestPrompt)))>>)

\* C27: while the list is shown, the loading flag is true exactly when some
\* full-generation call is in flight.
C27_LoadingIffGenerating ==
  Mounted => (isGeneratingCategories <=> InFlight("generate"))

\* C28: every send of a non-empty prompt from the results screen starts an
\* invocation of handleCategoryUpdate, and with it a call to the hosted model.
C28_EverySendUpdates ==
  [][(last'.op = "handleSend" /\ trim(latestPrompt') # <<>>) =>
       /\ Len(calls') = Len(calls) + 1
       /\ calls'[Len(calls')].newPrompt = trim(latestPrompt')]_vars

\* C29: the non-empty prompt sent next after a reset becomes the initial (base)
\* prompt.
C29_PromptAfterResetIsBase ==
  [][(last.op = "handleReset" /\ last'.op = "handleSend" /\ latestPrompt' # <<>>) =>
       initialPrompt' = latestPrompt']_vars

\* C30: whenever AgentInput's handleSend calls onSend, the prompt it passes is the
\* content of the text area at that moment.
C30_SendsWhatIsDisplayed ==
  [][(last'.op \in {"animateToResults", "handleSend"}) =>
       latestPrompt' = agentInput.prompt]_vars

====
